---- MODULE Spec2Model ----
(***************************************************************************)
(* Model of the upload service of src/main.py: the upload handler          *)
(* (upload_file), the blob upload (upload_to_blob), the metadata insert    *)
(* (save_metadata_to_db) and the broker publisher (publish_to_rabbitmq     *)
(* with its nested ensure_connection_and_confirm_mode).                    *)
(*                                                                         *)
(* The blob store, the record store and the broker are the environment:    *)
(* every call into them either succeeds or raises, chosen                  *)
(* nondeterministically.  Strings the code inspects (file name, location,  *)
(* username, report type) are sequences of characters or tokens so that    *)
(* endswith, replace/split, strip and lower are computed, not assumed.     *)
(***************************************************************************)
EXTENDS Integers, Sequences, FiniteSets, TLC

(* ------------------------------ bounds --------------------------------- *)

\* Number of upload requests the service receives in one run.
NumReq == 2

\* Number of direct publish_to_rabbitmq calls in the publisher-only run.
MaxCalls == 2

(* ------------------------- program constants --------------------------- *)

\* MAX_RETRIES of publish_to_rabbitmq.
MAX_RETRIES == 3

BUCKET_NAME == "cloud-test-bucket"

allowed_content_types == {"image/png", "image/jpeg"}

required_fields == {"type", "id", "image_url", "report_id"}

(* ------------------------------ inputs --------------------------------- *)

ContentTypes == {"image/png", "image/jpeg", "text/plain"}

\* Declared file names, as character sequences: a.png, a.jpg, a.jpeg
Filenames ==
    { <<"a", ".", "p", "n", "g">>,
      <<"a", ".", "j", "p", "g">>,
      <<"a", ".", "j", "p", "e", "g">> }

\* Location strings, as token sequences.  The first is the structured
\* latitude/longitude pair, the second the "test_location" of the tests
\* (no comma), the third has two commas.
LocPair == << "{\"latitude\":", "1.0", ",", "\"longitude\":", "2.0", "}" >>
LocPlain == << "test_location" >>
LocTriple == << "1.0", ",", "2.0", ",", "3.0" >>
Locations == { LocPair, LocPlain, LocTriple }

\* Usernames with and without surrounding whitespace.
Usernames == { <<" ", "a", " ">>, <<"a">> }

\* Report types: mixed case and lower case.  (The framework answers 422
\* to a required form field that is empty, so an empty type never reaches
\* the handler.)
Types == { <<"P", "o">>, <<"p", "o">> }

\* The uploaded bytes.
FileContent == << "bytes of a.png" >>

(* --------------------------- pure helpers ------------------------------ *)

\* hashlib.sha256(...).hexdigest() (line 311): the digest of the bytes
sha256(content) == << "sha256 of" >> \o content

\* The `hash` form field as the tests send it: the digest of the uploaded
\* bytes, or another digest.  upload_file declares no such parameter (line
\* 296 is commented out), so the framework drops the field.
NoHash == <<>>
Hashes == { sha256(FileContent), sha256(<< "other bytes" >>) }

\* mimetypes.guess_extension(content_type) or "" (line 322)
guess_extension(ct) ==
    CASE ct = "image/png" -> <<".", "p", "n", "g">>
      [] ct = "image/jpeg" -> <<".", "j", "p", "g">>
      [] ct = "text/plain" -> <<".", "t", "x", "t">>
      [] OTHER -> <<>>

\* str.endswith
endswith(s, suf) ==
    /\ Len(s) >= Len(suf)
    /\ SubSeq(s, Len(s) - Len(suf) + 1, Len(s)) = suf

\* str.replace(tok, "") on a token sequence
replace(s, tok) == SelectSeq(s, LAMBDA t : t # tok)

\* str.split(","): the pieces between the commas
RECURSIVE split(_)
split(s) ==
    IF \A i \in 1..Len(s) : s[i] # ","
    THEN << s >>
    ELSE LET k == CHOOSE i \in 1..Len(s) :
                    /\ s[i] = ","
                    /\ \A j \in 1..(i - 1) : s[j] # ","
         IN  << SubSeq(s, 1, k - 1) >> \o split(SubSeq(s, k + 1, Len(s)))

\* The right-hand side of line 306
parse_location(location) ==
    split(replace(replace(replace(location, "{\"latitude\":"),
                          "\"longitude\":"), "}"))

\* The tuple unpacking of line 306 raises ValueError unless there are exactly
\* two pieces.
location_unpacks(location) == Len(parse_location(location)) = 2

\* str.strip(): drop leading and trailing blanks
RECURSIVE lstrip(_)
lstrip(s) == IF s # <<>> /\ Head(s) = " " THEN lstrip(Tail(s)) ELSE s

RECURSIVE rstrip(_)
rstrip(s) ==
    IF s # <<>> /\ s[Len(s)] = " " THEN rstrip(SubSeq(s, 1, Len(s) - 1)) ELSE s

strip(s) == rstrip(lstrip(s))

\* str.lower()
lower_char(c) == IF c = "P" THEN "p" ELSE c

lower(s) == [i \in 1..Len(s) |-> lower_char(s[i])]

(* ------------------------------- state --------------------------------- *)

VARIABLES
    arrived,              \* requests received so far; ids are 1..arrived
    reqs,                 \* location of each request parked at the await
    suspended,            \* ids of the requests parked at await file.read()
    resp,                 \* HTTP status answered per request, 0 = none yet
    h,                    \* frame of the handler that holds the event loop
    tmpFiles,             \* temporary files that exist on disk
    bucketExists,         \* the bucket exists in the blob store
    blobs,                \* object keys stored in the bucket
    cnxOk,                \* the shared psycopg2 connection is usable
    dbTxn,                \* rows inserted in the connection's open transaction
    dbRows,               \* committed rows of the reports table
    dbNextId,             \* next value of the id sequence
    committed,            \* requests whose cnx.commit() returned
    rabbitmq_connection,  \* global: id of the held connection, 0 = None
    rabbitmq_channel,     \* global: the held channel [id, conn], NoChannel = None
    nextConn,             \* number of connection objects created so far
    leaked,               \* open connections the global no longer references
    stale,                \* the broker dropped the held connection, unseen yet
    txBuf,                \* broker: messages published on the held channel, uncommitted
    queue,                \* broker: committed messages of the durable queue
    pub,                  \* frame of the publish_to_rabbitmq call
    calls                 \* direct publish calls made (publisher-only run)

vars ==
    << arrived, reqs, suspended, resp, h, tmpFiles, bucketExists, blobs,
       cnxOk, dbTxn, dbRows, dbNextId, committed, rabbitmq_connection,
       rabbitmq_channel,
       nextConn, leaked, stale, txBuf, queue, pub, calls >>

handlerVars == << arrived, reqs, suspended, resp, h, tmpFiles >>
blobVars == << bucketExists, blobs >>
dbVars == << cnxOk, dbTxn, dbRows, dbNextId, committed >>
connVars ==
    << rabbitmq_connection, rabbitmq_channel, nextConn, leaked, stale >>
brokerVars == << txBuf, queue >>

NoChannel == [id |-> 0, conn |-> 0]

\* Handler frame when no handler has run yet.  Besides the locals of
\* upload_file it records where the handler failed (failed_at), what the
\* publish call returned (published), how os.remove ended (removed), the
\* `hash` field the request carried (hash) and the keys of the returned
\* JSON object (body).
IdleFrame ==
    [pc |-> "idle", id |-> 0, ctype |-> "", filename |-> <<>>,
     location |-> <<>>, username |-> <<>>, rtype |-> <<>>,
     tmp |-> 0, key |-> <<>>, cursor |-> 0, fetched |-> 0,
     report_id |-> 0, exc |-> "none", failed_at |-> "none",
     published |-> "none", removed |-> "none", code |-> 0,
     hash |-> NoHash, file_hash |-> <<>>, body |-> {}]

\* Publish frame when publish_to_rabbitmq is not being called.  retry_count
\* is the local of line 182; conn0 and chan0 are the globals as the call
\* found them; the fields from connects on count what the call has done:
\*   connects    connection cycles that went to the network
\*   connFails   connection cycles that returned False
\*   attempts    basic_publish calls
\*   chanClosed  attempts the broker answered by closing the channel
\*   delivered   copies of the message the broker committed to the queue
\*   ackLost     commits the broker processed whose answer was lost
\*   unroutable  UnroutableError exceptions raised
\*   staleHits   attempts that failed because the pair the call found held
\*               had been dropped by the broker before the call
IdlePub ==
    [pc |-> "idle", message |-> <<>>, retry_count |-> 0, result |-> FALSE,
     cause |-> "none", conn0 |-> 0, chan0 |-> NoChannel,
     connects |-> 0, connFails |-> 0, attempts |-> 0, chanClosed |-> 0,
     delivered |-> 0, ackLost |-> 0, unroutable |-> 0, staleHits |-> 0]

\* State after lifespan() has run (lines 37-65): globals set to None, the
\* database connection open.  The bucket may or may not exist yet.
Init ==
    /\ arrived = 0
    /\ reqs = [r \in 1..NumReq |-> <<>>]
    /\ suspended = {}
    /\ resp = [r \in 1..NumReq |-> 0]
    /\ h = IdleFrame
    /\ tmpFiles = {}
    /\ bucketExists \in BOOLEAN
    /\ blobs = {}
    /\ cnxOk = TRUE
    /\ dbTxn = {}
    /\ dbRows = {}
    /\ dbNextId = 1
    /\ committed = {}
    /\ rabbitmq_connection = 0
    /\ rabbitmq_channel = NoChannel
    /\ nextConn = 0
    /\ leaked = 0
    /\ stale = FALSE
    /\ txBuf = <<>>
    /\ queue = <<>>
    /\ pub = IdlePub
    /\ calls = 0

\* Mutant of LoopFree: the handler also yields the event loop between
\* reading the generated id and the commit.
LoopFree_yield_before_commit == h.pc \in {"idle", "done", "commit"}

\* Mutant of LoopFree: the handler also yields the event loop while its
\* publish call is in progress.
LoopFree_yield_in_publish == h.pc \in {"idle", "done", "wait_pub"}

\* The event loop is free: no handler is between its resumption and its end.
LoopFree == h.pc \in {"idle", "done"}

(* ------------------------- upload_file: entry -------------------------- *)

\* The form fields other than the location.  The handler reads them first
\* after the await of line 310, and the model draws them there.
Fields ==
    [ctype : ContentTypes, filename : Filenames, username : Usernames,
     rtype : Types, hash : Hashes]

\* The handler's frame once it has ended with HTTP status `code`.
Ended(f, code) == [f EXCEPT !.pc = "done", !.code = code]

\* The frame of the handler of request n with its form fields.
Frame(n, location, q) ==
    [IdleFrame EXCEPT
       !.id = n, !.location = location, !.ctype = q.ctype,
       !.filename = q.filename, !.username = q.username, !.rtype = q.rtype,
       !.hash = q.hash]

\* A request arrives and its handler runs up to the await of line 310: the
\* location is parsed (line 306) before anything else.  A location that does
\* not unpack into two pieces raises ValueError, which nothing catches: the
\* request is answered 500, whatever its other fields.  Otherwise the
\* handler parks at the await.
Arrive ==
    /\ LoopFree
    /\ arrived < NumReq
    /\ \E location \in Locations :
          LET n == arrived + 1 IN
          /\ arrived' = n
          /\ IF location_unpacks(location)
             THEN /\ reqs' = [reqs EXCEPT ![n] = location]
                  /\ suspended' = suspended \cup {n}
                  /\ UNCHANGED << h, resp >>
             ELSE /\ \E q \in Fields :
                        h' = [Ended(Frame(n, location, q), 500)
                                EXCEPT !.exc = "ValueError",
                                       !.failed_at = "parse"]
                  /\ resp' = [resp EXCEPT ![n] = 500]
                  /\ UNCHANGED << reqs, suspended >>
    /\ UNCHANGED << tmpFiles, blobVars, dbVars, connVars, brokerVars, pub,
                    calls >>

\* Lines 315-326: the status the validation raises, 0 when it passes.
validate(ctype, filename) ==
    IF ctype \notin allowed_content_types THEN 415
    ELSE IF ~endswith(filename, guess_extension(ctype)) THEN 400
    ELSE 0

\* A parked handler is resumed (file.read() completed) and runs lines
\* 310-326: it computes the digest of the bytes, then either raises the validation's HTTPException or goes on to
\* write the temporary file.
Resume ==
    /\ LoopFree
    /\ \E r \in suspended, q \in Fields :
          LET f == [Frame(r, reqs[r], q) EXCEPT
                      !.file_hash = sha256(FileContent)]
              v == validate(q.ctype, q.filename)
          IN  /\ suspended' = suspended \ {r}
              /\ reqs' = [reqs EXCEPT ![r] = <<>>]
              /\ IF v # 0
                 THEN /\ h' = [Ended(f, v) EXCEPT !.exc = "HTTPException",
                                                  !.failed_at = "validate"]
                      /\ resp' = [resp EXCEPT ![r] = v]
                 ELSE /\ h' = [f EXCEPT !.pc = "tmp"]
                      /\ UNCHANGED resp
    /\ UNCHANGED << arrived, tmpFiles, blobVars, dbVars, connVars,
                    brokerVars, pub, calls >>

\* Lines 344-349: the temporary file is created (delete=False) and written,
\* then the destination key is a fresh uuid followed by the extension.  The
\* request id stands for the uuid (fresh per request).  Creating or writing
\* the file may fail; this is outside the try block of line 351, so the
\* exception ends the handler, and a file that was created stays.
TmpWrite ==
    /\ h.pc = "tmp"
    /\ \E o \in {"ok", "create_failed", "write_failed"} :
          CASE o = "ok" ->
                 /\ tmpFiles' = tmpFiles \cup {h.id}
                 /\ h' = [h EXCEPT !.pc = "head", !.tmp = h.id,
                            !.key = << h.id >> \o guess_extension(h.ctype)]
                 /\ UNCHANGED resp
            [] o = "create_failed" ->
                 /\ h' = [Ended(h, 500) EXCEPT !.exc = "OSError",
                                               !.failed_at = "tmp"]
                 /\ resp' = [resp EXCEPT ![h.id] = 500]
                 /\ UNCHANGED tmpFiles
            [] o = "write_failed" ->
                 /\ tmpFiles' = tmpFiles \cup {h.id}
                 /\ h' = [Ended(h, 500) EXCEPT !.exc = "OSError",
                                               !.failed_at = "tmp",
                                               !.tmp = h.id]
                 /\ resp' = [resp EXCEPT ![h.id] = 500]
    /\ UNCHANGED << arrived, reqs, suspended, blobVars, dbVars, connVars,
                    brokerVars, pub, calls >>

\* An exception raised inside the try block of line 351, in upload_to_blob
\* ("blob") or save_metadata_to_db ("metadata"): the handler of line 378
\* turns it into HTTPException(500) and the finally clause runs.
Raised(f, where) ==
    [f EXCEPT !.pc = "finally", !.exc = "HTTPException", !.failed_at = where]

(* --------------------------- upload_to_blob ---------------------------- *)

\* Line 254: head_bucket answers, raises ClientError 404 when the bucket is
\* absent, or raises another error, which propagates (line 262).
HeadBucket ==
    /\ h.pc = "head"
    /\ \/ /\ bucketExists
          /\ h' = [h EXCEPT !.pc = "put"]
       \/ /\ ~bucketExists
          /\ h' = [h EXCEPT !.pc = "create"]
       \/ h' = Raised(h, "blob")
    /\ UNCHANGED << arrived, reqs, suspended, resp, tmpFiles, blobVars,
                    dbVars, connVars, brokerVars, pub, calls >>

\* Line 258: create_bucket, inside the except clause: its error propagates.
CreateBucket ==
    /\ h.pc = "create"
    /\ \/ /\ bucketExists' = TRUE
          /\ h' = [h EXCEPT !.pc = "put"]
       \/ /\ h' = Raised(h, "blob")
          /\ UNCHANGED bucketExists
    /\ UNCHANGED << arrived, reqs, suspended, resp, tmpFiles, blobs, dbVars,
                    connVars, brokerVars, pub, calls >>

\* Mutant of PutObject: a failed put is noted and then ignored, the
\* pipeline goes on.
PutObject_ignored ==
    /\ h.pc = "put"
    /\ \/ /\ blobs' = blobs \cup {h.key}
          /\ h' = [h EXCEPT !.pc = "presign"]
       \/ /\ h' = [h EXCEPT !.pc = "presign", !.failed_at = "blob"]
          /\ UNCHANGED blobs
    /\ UNCHANGED << arrived, reqs, suspended, resp, tmpFiles, bucketExists,
                    dbVars, connVars, brokerVars, pub, calls >>

\* Line 266: upload_file stores the bytes under the key, or raises.
PutObject ==
    /\ h.pc = "put"
    /\ \/ /\ blobs' = blobs \cup {h.key}
          /\ h' = [h EXCEPT !.pc = "presign"]
       \/ /\ h' = Raised(h, "blob")
          /\ UNCHANGED blobs
    /\ UNCHANGED << arrived, reqs, suspended, resp, tmpFiles, bucketExists,
                    dbVars, connVars, brokerVars, pub, calls >>

\* Lines 270-275: generate_presigned_url, then upload_to_blob returns.
Presign ==
    /\ h.pc = "presign"
    /\ \/ h' = [h EXCEPT !.pc = "execute"]
       \/ h' = Raised(h, "blob")
    /\ UNCHANGED << arrived, reqs, suspended, resp, tmpFiles, blobVars,
                    dbVars, connVars, brokerVars, pub, calls >>

(* ------------------------- save_metadata_to_db ------------------------- *)

\* Mutant of report_row: the username is stored as submitted.
report_row_unstripped(id, f) ==
    [id |-> id, bucket_name |-> BUCKET_NAME, file_name |-> f.key,
     username |-> f.username, type |-> lower(f.rtype)]

\* The row of line 88: username stripped, type lowercased.
report_row(id, f) ==
    [id |-> id, bucket_name |-> BUCKET_NAME, file_name |-> f.key,
     username |-> strip(f.username), type |-> lower(f.rtype)]

\* Line 88: cursor.execute of the INSERT ... RETURNING id.  It adds the row
\* to the connection's open transaction and draws the next id; or the
\* statement fails; or the connection is lost, which ends the transaction
\* on the server.  On a connection that is already lost it can only raise.
DbExecute ==
    /\ h.pc = "execute"
    /\ \/ /\ cnxOk
          /\ dbTxn' = dbTxn \cup {report_row(dbNextId, h)}
          /\ dbNextId' = dbNextId + 1
          /\ h' = [h EXCEPT !.pc = "fetch", !.cursor = dbNextId]
          /\ UNCHANGED << cnxOk, dbRows, committed >>
       \/ /\ h' = [h EXCEPT !.pc = "rollback"]
          /\ UNCHANGED dbVars
       \/ /\ cnxOk
          /\ cnxOk' = FALSE
          /\ dbTxn' = {}
          /\ h' = [h EXCEPT !.pc = "rollback"]
          /\ UNCHANGED << dbRows, dbNextId, committed >>
    /\ UNCHANGED << arrived, reqs, suspended, resp, tmpFiles, blobVars,
                    connVars, brokerVars, pub, calls >>

\* Line 89: report_id = cursor.fetchone()[0], or it raises.
DbFetch ==
    /\ h.pc = "fetch"
    /\ \/ h' = [h EXCEPT !.pc = "commit", !.fetched = h.cursor]
       \/ h' = [h EXCEPT !.pc = "rollback"]
    /\ UNCHANGED << arrived, reqs, suspended, resp, tmpFiles, blobVars,
                    dbVars, connVars, brokerVars, pub, calls >>

\* Mutant of DbCommit: the id is returned without cnx.commit().
DbCommit_forgotten ==
    /\ h.pc = "commit"
    /\ h' = [h EXCEPT !.pc = "publish", !.report_id = h.fetched]
    /\ UNCHANGED << arrived, reqs, suspended, resp, tmpFiles, blobVars,
                    dbVars, connVars, brokerVars, pub, calls >>

\* Lines 92-93: cnx.commit() makes the rows of the open transaction visible
\* and save_metadata_to_db returns the id; or the commit is refused; or the
\* connection is lost before the server committed.
DbCommit ==
    /\ h.pc = "commit"
    /\ \/ /\ cnxOk
          /\ dbRows' = dbRows \cup dbTxn
          /\ dbTxn' = {}
          /\ committed' = committed \cup {h.id}
          /\ h' = [h EXCEPT !.pc = "publish", !.report_id = h.fetched]
          /\ UNCHANGED << cnxOk, dbNextId >>
       \/ /\ h' = [h EXCEPT !.pc = "rollback"]
          /\ UNCHANGED dbVars
       \/ /\ cnxOk
          /\ cnxOk' = FALSE
          /\ dbTxn' = {}
          /\ h' = [h EXCEPT !.pc = "rollback"]
          /\ UNCHANGED << dbRows, dbNextId, committed >>
    /\ UNCHANGED << arrived, reqs, suspended, resp, tmpFiles, blobVars,
                    connVars, brokerVars, pub, calls >>

\* Mutant of DbRollback: the except clause rolls back and returns None
\* instead of raising.
DbRollback_no_raise ==
    /\ h.pc = "rollback"
    /\ \/ /\ cnxOk
          /\ dbTxn' = {}
          /\ UNCHANGED << cnxOk, dbRows, dbNextId, committed >>
       \/ /\ ~cnxOk
          /\ UNCHANGED dbVars
    /\ h' = [h EXCEPT !.pc = "publish", !.failed_at = "metadata"]
    /\ UNCHANGED << arrived, reqs, suspended, resp, tmpFiles, blobVars,
                    connVars, brokerVars, pub, calls >>

\* Mutant of DbRollback: the except clause raises without rolling back.
DbRollback_skipped ==
    /\ h.pc = "rollback"
    /\ UNCHANGED dbVars
    /\ h' = Raised(h, "metadata")
    /\ UNCHANGED << arrived, reqs, suspended, resp, tmpFiles, blobVars,
                    connVars, brokerVars, pub, calls >>

\* Lines 94-98: the except clause rolls the open transaction back and raises
\* HTTPException(500).  On a lost connection rollback itself raises; either
\* way an exception reaches upload_file.
DbRollback ==
    /\ h.pc = "rollback"
    /\ \/ /\ cnxOk
          /\ dbTxn' = {}
          /\ UNCHANGED << cnxOk, dbRows, dbNextId, committed >>
       \/ /\ ~cnxOk
          /\ UNCHANGED dbVars
    /\ h' = Raised(h, "metadata")
    /\ UNCHANGED << arrived, reqs, suspended, resp, tmpFiles, blobVars,
                    connVars, brokerVars, pub, calls >>

(* ------------------------- publish_to_rabbitmq ------------------------- *)

\* A value json.dumps cannot serialize, standing where the report type goes.
NotJson == << "<object>" >>

\* Mutant of StartPub: the retry counter is kept from the previous call
\* (a counter that is not reset on entry).
StartPub_carried(message) ==
    [IdlePub EXCEPT !.pc = "validate", !.message = message,
                    !.conn0 = rabbitmq_connection,
                    !.chan0 = rabbitmq_channel,
                    !.retry_count = pub.retry_count]

\* The frame of a call that has just been entered with `message`.
StartPub(message) ==
    [IdlePub EXCEPT !.pc = "validate", !.message = message,
                    !.conn0 = rabbitmq_connection,
                    !.chan0 = rabbitmq_channel]

\* The call returns `result` (lines 173, 179, 189, 215, 219, 244).
Returned(f, result, cause) ==
    [f EXCEPT !.pc = "returned", !.result = result, !.cause = cause]

\* json.dumps(message) succeeds (line 160).  Of the values the model puts
\* in a message only NotJson, as the type, is not serializable.
serializable(message) ==
    ~("type" \in DOMAIN message /\ message["type"] = NotJson)

\* Line 170: the required fields that are not keys of the message
missing_fields(message) == required_fields \ DOMAIN message

\* Mutant of PubValidate: the missing-field check is left out.
PubValidate_unchecked ==
    /\ pub.pc = "validate"
    /\ pub' = IF ~serializable(pub.message)
              THEN Returned(pub, FALSE, "validation")
              ELSE [pub EXCEPT !.pc = "ensure"]
    /\ UNCHANGED << handlerVars, blobVars, dbVars, connVars, brokerVars,
                    calls >>

\* Lines 157-179: the message is validated before anything touches the
\* network: an unserializable message or a missing field returns False.
PubValidate ==
    /\ pub.pc = "validate"
    /\ pub' = IF ~serializable(pub.message) \/ missing_fields(pub.message) # {}
              THEN Returned(pub, FALSE, "validation")
              ELSE [pub EXCEPT !.pc = "ensure"]
    /\ UNCHANGED << handlerVars, blobVars, dbVars, connVars, brokerVars,
                    calls >>

\* rabbitmq_connection.is_closed / rabbitmq_channel.is_closed (lines 116,
\* 132).  A BlockingConnection learns that it was closed only inside an
\* operation, which then raises; every handler of such an exception clears
\* both globals.  So an object the globals hold is never seen closed.
conn_is_closed(c) == FALSE
chan_is_closed(ch) == conn_is_closed(ch.conn)

\* Lines 116 and 132: what ensure_connection_and_confirm_mode has to set up
need_connection ==
    rabbitmq_connection = 0 \/ conn_is_closed(rabbitmq_connection)

\* Mutant of need_channel: a channel is opened for every call.
need_channel_always == TRUE

\* Line 132: a channel has to be opened
need_channel ==
    rabbitmq_channel = NoChannel \/ chan_is_closed(rabbitmq_channel)

\* Lines 185-190 after ensure_connection_and_confirm_mode returned False:
\* one retry is consumed, and the call returns False once none is left.
after_connect_failure(f) ==
    LET g == [f EXCEPT !.retry_count = f.retry_count + 1,
                       !.connects = f.connects + 1,
                       !.connFails = f.connFails + 1]
    IN  IF g.retry_count >= MAX_RETRIES
        THEN Returned(g, FALSE, "exhausted")
        ELSE [g EXCEPT !.pc = "ensure"]

\* Mutant of ResetGlobals: the globals are left as they are after a
\* failure.
ResetGlobals_kept ==
    /\ rabbitmq_channel' = rabbitmq_channel
    /\ rabbitmq_connection' = rabbitmq_connection
    /\ stale' = stale
    /\ txBuf' = <<>>

\* Mutant of ResetGlobals: only the channel is cleared, the connection is
\* kept.
ResetGlobals_channel_only ==
    /\ rabbitmq_channel' = NoChannel
    /\ rabbitmq_connection' = rabbitmq_connection
    /\ stale' = stale
    /\ txBuf' = <<>>

\* The globals after lines 153-154, 225-226, 230-231 or 238-239: both None.
\* The transaction of the dropped channel is never committed.
ResetGlobals ==
    /\ rabbitmq_channel' = NoChannel
    /\ rabbitmq_connection' = 0
    /\ stale' = FALSE
    /\ txBuf' = <<>>

\* Lines 113-155 with the loop head of lines 184-190.  A held connection
\* and channel are reused without any network operation.  Otherwise a
\* connection is established when needed (line 129), then a channel is
\* opened on it, put in transaction mode and the queue declared (lines
\* 134-147).  Any failure clears both globals (lines 153-154) without
\* closing what was opened, and returns False.  When the loop condition of
\* line 184 fails the call returns False (line 246).
EnsureConnection ==
    /\ pub.pc = "ensure"
    /\ IF pub.retry_count >= MAX_RETRIES
       THEN /\ pub' = Returned(pub, FALSE, "exhausted")
            /\ UNCHANGED << connVars, brokerVars >>
       ELSE
       LET c == IF need_connection THEN nextConn + 1 ELSE rabbitmq_connection
           ch == [id |-> IF need_connection THEN 1
                         ELSE rabbitmq_channel.id + 1,
                  conn |-> c]
       IN
       \/ \* nothing to set up
          /\ ~need_connection /\ ~need_channel
          /\ pub' = [pub EXCEPT !.pc = "basic_publish"]
          /\ UNCHANGED << connVars, brokerVars >>
       \/ \* BlockingConnection raises (line 129)
          /\ need_connection
          /\ ResetGlobals
          /\ pub' = after_connect_failure(pub)
          /\ UNCHANGED << nextConn, leaked, queue >>
       \/ \* connection held or established, channel set up (lines 134-147)
          /\ need_connection \/ need_channel
          /\ need_connection \/ ~stale
          /\ rabbitmq_connection' = c
          /\ rabbitmq_channel' = ch
          /\ nextConn' = IF need_connection THEN c ELSE nextConn
          /\ stale' = FALSE
          /\ txBuf' = <<>>
          /\ pub' = [pub EXCEPT !.pc = "basic_publish",
                                !.connects = pub.connects + 1]
          /\ UNCHANGED << leaked, queue >>
       \/ \* channel(), tx_select or queue_declare raises a channel error:
          \* the connection stays open and is no longer referenced
          /\ need_connection \/ need_channel
          /\ need_connection \/ ~stale
          /\ ResetGlobals
          /\ nextConn' = IF need_connection THEN c ELSE nextConn
          /\ leaked' = leaked + 1
          /\ pub' = after_connect_failure(pub)
          /\ UNCHANGED queue
       \/ \* the connection is lost while the channel is set up
          /\ need_connection \/ need_channel
          /\ ResetGlobals
          /\ nextConn' = IF need_connection THEN c ELSE nextConn
          /\ pub' = after_connect_failure(pub)
          /\ UNCHANGED << leaked, queue >>
    /\ UNCHANGED << handlerVars, blobVars, dbVars, calls >>

\* Mutant of after_publish_failure: gives up one attempt early.
after_publish_failure_early(f) ==
    LET g == [f EXCEPT !.retry_count = f.retry_count + 1]
    IN  IF g.retry_count >= MAX_RETRIES - 1
        THEN Returned(g, FALSE, "exhausted")
        ELSE [g EXCEPT !.pc = "ensure"]

\* Lines 220-244: a recoverable error clears both globals (never closing
\* them), consumes one retry, and the call returns False once none is left.
after_publish_failure(f) ==
    LET g == [f EXCEPT !.retry_count = f.retry_count + 1]
    IN  IF g.retry_count >= MAX_RETRIES
        THEN Returned(g, FALSE, "exhausted")
        ELSE [g EXCEPT !.pc = "ensure"]

\* Mutant of BasicPublish: an unroutable message is handled like the
\* recoverable errors (globals cleared, one retry consumed).
BasicPublish_retry_unroutable ==
    /\ pub.pc = "basic_publish"
    /\ LET f == [pub EXCEPT !.attempts = pub.attempts + 1] IN
       \/ /\ ~stale
          /\ txBuf' = Append(txBuf, pub.message)
          /\ pub' = [f EXCEPT !.pc = "tx_commit"]
          /\ UNCHANGED << connVars, queue >>
       \/ /\ ~stale
          /\ ResetGlobals
          /\ leaked' = leaked + 1
          /\ pub' = after_publish_failure(
                       [f EXCEPT !.unroutable = f.unroutable + 1])
          /\ UNCHANGED << nextConn, queue >>
       \/ /\ ResetGlobals
          /\ pub' = after_publish_failure(
                       [f EXCEPT !.staleHits =
                            f.staleHits + (IF stale THEN 1 ELSE 0)])
          /\ UNCHANGED << nextConn, leaked, queue >>
    /\ UNCHANGED << handlerVars, blobVars, dbVars, calls >>

\* Lines 199-210: basic_publish on the held channel.
BasicPublish ==
    /\ pub.pc = "basic_publish"
    /\ LET f == [pub EXCEPT !.attempts = pub.attempts + 1] IN
       \/ \* the broker takes the message into the channel's transaction
          /\ ~stale
          /\ txBuf' = Append(txBuf, pub.message)
          /\ pub' = [f EXCEPT !.pc = "tx_commit"]
          /\ UNCHANGED << connVars, queue >>
       \/ \* UnroutableError (lines 217-219): return False, globals kept
          /\ ~stale
          /\ pub' = Returned([f EXCEPT !.unroutable = f.unroutable + 1],
                             FALSE, "unroutable")
          /\ UNCHANGED << connVars, brokerVars >>
       \/ \* ChannelClosedByBroker (lines 220-227), or any other exception
          \* (lines 233-240): the connection is still open when dropped
          /\ ~stale
          /\ ResetGlobals
          /\ leaked' = leaked + 1
          /\ \E closed \in BOOLEAN :
                pub' = after_publish_failure(
                          [f EXCEPT !.chanClosed =
                               f.chanClosed + (IF closed THEN 1 ELSE 0)])
          /\ UNCHANGED << nextConn, queue >>
       \/ \* ConnectionClosedByBroker, StreamLostError, AMQPConnectionError,
          \* ChannelWrongStateError (lines 220-232): the connection is gone
          /\ ResetGlobals
          /\ pub' = after_publish_failure(
                       [f EXCEPT !.staleHits =
                            f.staleHits + (IF stale THEN 1 ELSE 0)])
          /\ UNCHANGED << nextConn, leaked, queue >>
    /\ UNCHANGED << handlerVars, blobVars, dbVars, calls >>

\* Mutant of TxCommit: an exception of tx_commit is swallowed and the call
\* returns True.
TxCommit_swallowed ==
    /\ pub.pc = "tx_commit"
    /\ \/ /\ ~stale
          /\ queue' = queue \o txBuf
          /\ txBuf' = <<>>
          /\ pub' = Returned(
                       [pub EXCEPT !.delivered = pub.delivered + Len(txBuf)],
                       TRUE, "success")
          /\ UNCHANGED connVars
       \/ /\ ResetGlobals
          /\ pub' = Returned(pub, TRUE, "success")
          /\ UNCHANGED << nextConn, leaked, queue >>
    /\ UNCHANGED << handlerVars, blobVars, dbVars, calls >>

\* Mutant of TxCommit: something raises after the commit was acknowledged
\* (before the return), and the attempt is retried.
TxCommit_raise_after ==
    /\ pub.pc = "tx_commit"
    /\ \/ /\ ~stale
          /\ queue' = queue \o txBuf
          /\ txBuf' = <<>>
          /\ pub' = Returned(
                       [pub EXCEPT !.delivered = pub.delivered + Len(txBuf)],
                       TRUE, "success")
          /\ UNCHANGED connVars
       \/ /\ ~stale
          /\ queue' = queue \o txBuf
          /\ ResetGlobals
          /\ leaked' = leaked + 1
          /\ pub' = after_publish_failure(
                       [pub EXCEPT !.delivered = pub.delivered + Len(txBuf)])
          /\ UNCHANGED nextConn
       \/ /\ ResetGlobals
          /\ pub' = after_publish_failure(pub)
          /\ UNCHANGED << nextConn, leaked, queue >>
    /\ UNCHANGED << handlerVars, blobVars, dbVars, calls >>

\* Lines 213-215: tx_commit, then return True.  The broker may process the
\* commit and the connection break before its answer arrives: the messages
\* are in the queue and tx_commit raises.
TxCommit ==
    /\ pub.pc = "tx_commit"
    /\ \/ \* the broker commits and answers
          /\ ~stale
          /\ queue' = queue \o txBuf
          /\ txBuf' = <<>>
          /\ pub' = Returned(
                       [pub EXCEPT !.delivered = pub.delivered + Len(txBuf)],
                       TRUE, "success")
          /\ UNCHANGED connVars
       \/ \* the broker commits, the answer is lost with the connection
          /\ ~stale
          /\ queue' = queue \o txBuf
          /\ ResetGlobals
          /\ pub' = after_publish_failure(
                       [pub EXCEPT !.delivered = pub.delivered + Len(txBuf),
                                   !.ackLost = pub.ackLost + 1])
          /\ UNCHANGED << nextConn, leaked >>
       \/ \* ChannelClosedByBroker before the commit, or any other exception
          /\ ~stale
          /\ ResetGlobals
          /\ leaked' = leaked + 1
          /\ \E closed \in BOOLEAN :
                pub' = after_publish_failure(
                          [pub EXCEPT !.chanClosed =
                               pub.chanClosed + (IF closed THEN 1 ELSE 0)])
          /\ UNCHANGED << nextConn, queue >>
       \/ \* the connection is closed or lost before the commit
          /\ ResetGlobals
          /\ pub' = after_publish_failure(pub)
          /\ UNCHANGED << nextConn, leaked, queue >>
    /\ UNCHANGED << handlerVars, blobVars, dbVars, calls >>

\* Since its last use the broker restarted or dropped the idle connection
\* (missed heartbeats): the held connection is dead, which the client sees
\* at its next operation.  The drop is placed right before the next call,
\* where it is first observable.  (A loss during a call is one of the
\* outcomes of the call's own operations.)
BrokerDrop ==
    /\ rabbitmq_connection # 0
    /\ ~stale
    /\ h.pc \in {"idle", "publish"}
    /\ pub.pc \in {"idle", "returned"}
    /\ stale' = TRUE
    /\ UNCHANGED << handlerVars, blobVars, dbVars, rabbitmq_connection,
                    rabbitmq_channel, nextConn, leaked, brokerVars, pub,
                    calls >>

(* ---------------------- upload_file: publish, end ---------------------- *)

\* Lines 361-366: the notification event of the upload
message_of(f) ==
    [type |-> f.rtype, id |-> f.key,
     image_url |-> << "https://img.roaport.com/" >> \o f.key,
     report_id |-> f.report_id]

\* Line 367: publish_to_rabbitmq(message) is entered.
CallPublish ==
    /\ h.pc = "publish"
    /\ pub.pc \in {"idle", "returned"}
    /\ pub' = StartPub(message_of(h))
    /\ h' = [h EXCEPT !.pc = "wait_pub"]
    /\ UNCHANGED << arrived, reqs, suspended, resp, tmpFiles, blobVars,
                    dbVars, connVars, brokerVars, calls >>

\* Lines 367-371: the call returned, its frame is gone; both outcomes are
\* only logged.
\* (publish_to_rabbitmq catches every Exception itself, so the except
\* clause of line 375 has nothing to catch.)
AfterPublish ==
    /\ h.pc = "wait_pub"
    /\ pub.pc = "returned"
    /\ h' = [h EXCEPT !.pc = "finally",
                      !.published = IF pub.result THEN "true" ELSE "false"]
    /\ pub' = IdlePub
    /\ UNCHANGED << arrived, reqs, suspended, resp, tmpFiles, blobVars,
                    dbVars, connVars, brokerVars, calls >>

\* Lines 386-393: the keys of the returned object ("reported_hash" is
\* commented out).
response_keys ==
    {"filename", "content_type", "file_hash", "location", "name"}

\* Mutant of Finally: the file is removed on the success path only
\* (removal at the end of the try block instead of a finally clause).
Finally_success_only ==
    /\ h.pc = "finally"
    /\ LET code == IF h.exc = "none" THEN 200 ELSE 500 IN
       /\ tmpFiles' = IF h.exc = "none" THEN tmpFiles \ {h.tmp} ELSE tmpFiles
       /\ h' = [Ended(h, code) EXCEPT !.removed = "ok"]
       /\ resp' = [resp EXCEPT ![h.id] = code]
    /\ UNCHANGED << arrived, reqs, suspended, blobVars, dbVars, connVars,
                    brokerVars, pub, calls >>

\* Lines 381-393: the finally clause removes the temporary file, then the
\* pending HTTPException(500) propagates or the result is returned (200).
\* os.remove may raise: the file stays and its exception propagates in
\* place of either.
Finally ==
    /\ h.pc = "finally"
    /\ \/ /\ tmpFiles' = tmpFiles \ {h.tmp}
          /\ LET code == IF h.exc = "none" THEN 200 ELSE 500 IN
             /\ h' = [Ended(h, code) EXCEPT
                        !.removed = "ok",
                        !.body = IF code = 200 THEN response_keys ELSE {}]
             /\ resp' = [resp EXCEPT ![h.id] = code]
       \/ /\ h' = [Ended(h, 500) EXCEPT !.exc = "OSError",
                                        !.removed = "failed"]
          /\ resp' = [resp EXCEPT ![h.id] = 500]
          /\ UNCHANGED tmpFiles
    /\ UNCHANGED << arrived, reqs, suspended, blobVars, dbVars, connVars,
                    brokerVars, pub, calls >>

(* --------------------------- specifications ---------------------------- *)

Publisher == PubValidate \/ EnsureConnection \/ BasicPublish \/ TxCommit

Next ==
    \/ Arrive
    \/ Resume
    \/ TmpWrite
    \/ HeadBucket
    \/ CreateBucket
    \/ PutObject
    \/ Presign
    \/ DbExecute
    \/ DbFetch
    \/ DbCommit
    \/ DbRollback
    \/ CallPublish
    \/ AfterPublish
    \/ Finally
    \/ Publisher
    \/ BrokerDrop

\* The upload service.
Spec == Init /\ [][Next]_vars

\* Messages for direct calls of publish_to_rabbitmq: the event of an upload,
\* the same with any of its fields left out, one that cannot be
\* serialized, and one whose type is the empty string.
SampleMessage ==
    [type |-> << "P", "o" >>, id |-> << 1, ".", "p", "n", "g" >>,
     image_url |-> << "https://img.roaport.com/", 1, ".", "p", "n", "g" >>,
     report_id |-> 1]

Messages ==
    { [k \in S |-> SampleMessage[k]] : S \in SUBSET required_fields }
    \cup { [SampleMessage EXCEPT !.type = NotJson] }
    \cup { [SampleMessage EXCEPT !.type = <<>>] }

\* publish_to_rabbitmq is called directly with any message.
DirectCall ==
    /\ pub.pc \in {"idle", "returned"}
    /\ calls < MaxCalls
    /\ \E m \in Messages : pub' = StartPub(m)
    /\ calls' = calls + 1
    /\ UNCHANGED << handlerVars, blobVars, dbVars, connVars, brokerVars >>

NextPub == DirectCall \/ Publisher \/ BrokerDrop

\* The publisher alone, called with arbitrary messages.
SpecPub == Init /\ [][NextPub]_vars

\* The publisher alone, where every step of a call in progress eventually
\* completes: each pika operation is a blocking call that returns or raises
\* (the connection is opened with a heartbeat and a blocked-connection
\* timeout, lines 126-127), and the code between two operations does not
\* wait for anything.
SpecPubLive == SpecPub /\ WF_vars(Publisher)

(* ------------------------------- claims -------------------------------- *)

\* The call in progress was given a message that passes the validation.
ValidMessage ==
    serializable(pub.message) /\ missing_fields(pub.message) = {}

\* Every failure of the call so far was the broker closing the channel on a
\* publish attempt (no failed connection cycle, no unroutable message, no
\* other error).
OnlyChannelClosures ==
    pub.connFails = 0 /\ pub.unroutable = 0 /\ pub.chanClosed = pub.retry_count

\* C1: a call with a valid message whose first two publish attempts the
\* broker answers by closing the channel, and whose third it accepts,
\* returns True after exactly 3 publish attempts; when the broker closes the
\* channel on every attempt it returns False after exactly MAX_RETRIES
\* publish attempts; and once the call has returned, no step of the
\* publisher (connect or publish) is possible any more.
C1_RetryBudget ==
    (pub.pc = "returned" /\ ValidMessage /\ OnlyChannelClosures) =>
        /\ (pub.result /\ pub.chanClosed = 2) => pub.attempts = 3
        /\ ~pub.result =>
               /\ pub.chanClosed = MAX_RETRIES
               /\ pub.attempts = MAX_RETRIES
               /\ pub.connects <= MAX_RETRIES
        /\ ~ENABLED Publisher

\* C1 witness: the call returned True on its third attempt after two
\* channel closures.
C1_Witness ==
    /\ pub.pc = "returned"
    /\ ValidMessage
    /\ OnlyChannelClosures
    /\ pub.result
    /\ pub.chanClosed = 2
    /\ pub.attempts = 3


\* C6: a call whose message lacks a required field returns False without
\* any connect, channel set-up or publish operation, without consuming a
\* retry, and with the shared connection and channel exactly as they were
\* when the call was entered.
C6_MissingFieldNoNetwork ==
    (pub.pc = "returned" /\ missing_fields(pub.message) # {}) =>
        /\ ~pub.result
        /\ pub.connects = 0
        /\ pub.attempts = 0
        /\ pub.retry_count = 0
        /\ pub.delivered = 0
        /\ rabbitmq_connection = pub.conn0
        /\ rabbitmq_channel = pub.chan0

\* C6 witness: a call with a field missing has returned while a connection
\* and channel from an earlier call are held.
C6_Witness ==
    /\ pub.pc = "returned"
    /\ missing_fields(pub.message) # {}
    /\ ~pub.result
    /\ pub.conn0 # 0
    /\ rabbitmq_connection = pub.conn0
    /\ rabbitmq_channel = pub.chan0

\* C7: whenever a call has returned True, the broker committed the message
\* in that call: it is the last message of the queue, and nothing is left
\* uncommitted on the channel.
C7_TrueMeansCommitted ==
    (pub.pc = "returned" /\ pub.result) =>
        /\ pub.delivered >= 1
        /\ Len(queue) >= 1
        /\ queue[Len(queue)] = pub.message
        /\ txBuf = <<>>

\* C7 witness: a call returned True after a failed attempt, and the broker
\* holds its message.
C7_Witness ==
    /\ pub.pc = "returned"
    /\ pub.result
    /\ pub.retry_count >= 1
    /\ Len(queue) >= 1
    /\ queue[Len(queue)] = pub.message

\* C8 as stated: when a call returns False with its retries exhausted, the
\* broker holds no copy of the message committed in that call.
C8_ExhaustedNotDelivered ==
    (pub.pc = "returned" /\ pub.cause = "exhausted") => pub.delivered = 0

\* C8 amended: when a call returns False with its retries exhausted, the
\* copies of the message the broker committed in that call are exactly
\* those of the attempts whose commit acknowledgment was lost; without such
\* a loss the broker holds none.
C8_ExhaustedOnlyAckLost ==
    (pub.pc = "returned" /\ pub.cause = "exhausted") =>
        /\ ~pub.result
        /\ pub.delivered = pub.ackLost
        /\ pub.ackLost = 0 => pub.delivered = 0

\* C8 witness: retries exhausted, one of the failures being a commit whose
\* acknowledgment was lost: the broker holds that one copy.
C8_Witness ==
    /\ pub.pc = "returned"
    /\ pub.cause = "exhausted"
    /\ ~pub.result
    /\ pub.ackLost = 1
    /\ pub.delivered = 1
    /\ Len(queue) >= 1
    /\ queue[Len(queue)] = pub.message

\* C9: an unroutable message ends the call at once: the call has returned
\* False, the unroutable attempt consumed no retry and was the last
\* operation of the call, and the connection and channel are still held.
C9_UnroutableImmediate ==
    pub.unroutable > 0 =>
        /\ pub.pc = "returned"
        /\ ~pub.result
        /\ pub.cause = "unroutable"
        /\ pub.unroutable = 1
        /\ pub.retry_count < MAX_RETRIES
        /\ pub.attempts + pub.connFails = pub.retry_count + 1
        /\ ~ENABLED Publisher
        /\ rabbitmq_connection # 0
        /\ rabbitmq_channel # NoChannel
        /\ rabbitmq_channel.conn = rabbitmq_connection

\* C9 witness: the message was unroutable on an attempt made with retries
\* left, after an earlier failure in the same call.
C9_Witness ==
    /\ pub.pc = "returned"
    /\ pub.cause = "unroutable"
    /\ pub.retry_count = 1
    /\ rabbitmq_connection # 0
    /\ rabbitmq_channel # NoChannel

\* The handler of the last request ended on one of the paths that created a
\* temporary file and entered the try block: the pipeline succeeded, the
\* blob write failed, or the metadata write failed.
EndedAfterTry ==
    h.pc = "done" /\ h.tmp # 0 /\ h.failed_at \in {"none", "blob", "metadata"}

C3_CommittedMeansAccepted ==
    (h.pc = "done" /\ h.report_id # 0) =>
        /\ h.published \in {"true", "false"}
        /\ h.code = 200
        /\ resp[h.id] = 200

\* C4 as stated: a request whose declared MIME type is not allow-listed is
\* answered 415, whatever its other fields, and no temporary file, blob
\* call, metadata call or publish has occurred for it.
C4_NotAllowedIs415 ==
    (h.pc = "done" /\ h.ctype \notin allowed_content_types) =>
        /\ h.code = 415
        /\ resp[h.id] = 415
        /\ h.tmp = 0
        /\ h.key = <<>>
        /\ h.cursor = 0
        /\ h.published = "none"

\* C5 as stated: a request with an allow-listed MIME type is answered 400
\* exactly when its filename does not end with the canonical extension of
\* that type, and a request answered 400 has produced no blob, no record
\* and no event.
C5_MismatchIs400 ==
    (h.pc = "done" /\ h.ctype \in allowed_content_types) =>
        /\ h.code = 400 <=> ~endswith(h.filename, guess_extension(h.ctype))
        /\ h.code = 400 =>
              /\ h.tmp = 0
              /\ h.key = <<>>
              /\ h.report_id = 0
              /\ h.published = "none"

NoRecordOrEvent ==
    /\ \A row \in dbRows \cup dbTxn : row.file_name # h.key
    /\ \A i \in 1..Len(queue) : queue[i].id # h.key
    /\ \A i \in 1..Len(txBuf) : txBuf[i].id # h.key

C13_CleanupFailureHidden ==
    (h.pc = "done" /\ h.removed = "failed") =>
        /\ h.failed_at = "none" => (h.code = 200 /\ resp[h.id] = 200)
        /\ h.failed_at \in {"blob", "metadata"} =>
              (h.code = 500 /\ h.exc = "HTTPException")

\* A publish_to_rabbitmq call has been entered and has not returned.
PublishInFlight == pub.pc \notin {"idle", "returned"}

\* C14: with several requests in flight on the one event loop, the
\* transaction steps of a request are never interleaved with another's:
\* every insert pending on the shared connection belongs to the request
\* whose handler is between its execute and its commit or rollback, so no
\* commit or rollback ever touches another request's pending insert, and
\* every visible row was committed by its own request.
C14_TxnStepsNotInterleaved ==
    /\ Cardinality(dbTxn) <= 1
    /\ dbTxn # {} => h.pc \in {"fetch", "commit", "rollback"}
    /\ \A row \in dbTxn : row.file_name = h.key /\ row.id = h.cursor
    /\ \A row \in dbRows : row.file_name[1] \in committed

\* C14 witness: one request is between its insert and its commit while
\* another request is in flight, parked at its await.
C14_Witness ==
    /\ h.pc = "commit"
    /\ dbTxn # {}
    /\ suspended # {}
    /\ h.id \notin suspended

\* C15: at most one publish call is in flight at any time: while a call is
\* in flight it belongs to the handler that holds the event loop, and no
\* other request's handler starts or resumes (so none reads or reassigns
\* the shared connection or channel) until the call has returned.
C15_OnePublishInFlight ==
    [][PublishInFlight =>
          /\ h.pc = "wait_pub"
          /\ pub.message = message_of(h)
          /\ h'.id = h.id
          /\ arrived' = arrived
          /\ suspended' = suspended]_vars

\* C15 witness: a publish call is at its commit while another request is
\* in flight, parked at its await.
C15_Witness ==
    /\ pub.pc = "tx_commit"
    /\ h.pc = "wait_pub"
    /\ suspended # {}

\* The last request had a location that unpacks and passed the content
\* validation (allow-listed type, matching extension).
PassedValidation ==
    /\ h.pc = "done"
    /\ h.failed_at \notin {"parse", "validate"}
    /\ validate(h.ctype, h.filename) = 0

\* C16 as stated: an upload carrying a hash is answered 400 with no blob,
\* record or event exactly when the hash differs from the SHA-256 digest of
\* the uploaded bytes; when they are equal an accepted upload's result
\* echoes the computed hash and the reported hash.
C16_HashVerified ==
    (PassedValidation /\ h.hash # NoHash) =>
        /\ h.hash # h.file_hash =>
              /\ h.code = 400
              /\ h.tmp = 0
              /\ h.key \notin blobs
              /\ h.report_id = 0
              /\ h.published = "none"
        /\ h.hash = h.file_hash =>
              /\ h.code # 400
              /\ h.code = 200 =>
                    {"file_hash", "reported_hash"} \subseteq h.body

\* The call in progress has gone to the network: a connection cycle or a
\* publish attempt has been made.
WentToNetwork == pub.connects > 0 \/ pub.attempts > 0

ExpectedEvent ==
    [type |-> h.rtype, id |-> h.key,
     image_url |-> << "https://img.roaport.com/" >> \o h.key,
     report_id |-> h.report_id]

\* C18: the committed record of an upload stores the username without its
\* surrounding whitespace ("a" for every submitted username) and the type
\* in lower case ("po" for every submitted type); the event handed to the
\* publisher, and the one the broker holds after a successful publish, is
\* ExpectedEvent.
C18_RecordNormalizedEventVerbatim ==
    /\ h.report_id # 0 =>
          \E row \in dbRows :
             /\ row.id = h.report_id
             /\ row.file_name = h.key
             /\ row.bucket_name = "cloud-test-bucket"
             /\ row.username = << "a" >>
             /\ row.type = << "p", "o" >>
    /\ h.pc = "wait_pub" => pub.message = ExpectedEvent
    /\ h.published = "true" =>
          (Len(queue) >= 1 /\ queue[Len(queue)] = ExpectedEvent)

\* C18 witness: an upload submitted with username " a " and type "Po" was
\* accepted and its event published.
C18_Witness ==
    /\ h.pc = "done"
    /\ h.code = 200
    /\ h.username = << " ", "a", " " >>
    /\ h.rtype = << "P", "o" >>
    /\ h.published = "true"
    /\ queue[Len(queue)].type = << "P", "o" >>

\* A message refers to a committed record and a stored blob.
Grounded(m) ==
    /\ m.id \in blobs
    /\ \E row \in dbRows : row.id = m.report_id /\ row.file_name = m.id

\* C19: the steps of an upload occur in the order validate, blob put,
\* metadata commit, publish, each only after the previous one succeeded:
\* a temporary file is written only for a validated request, an insert is
\* made only after the blob is stored, a publish call only after the
\* commit; so every committed record names a stored blob and every message
\* handed to the broker a committed record and a stored blob.
C19_StrictOrder ==
    /\ h.tmp # 0 =>
          (validate(h.ctype, h.filename) = 0 /\ location_unpacks(h.location))
    /\ (h.cursor # 0 \/ h.pc \in {"execute", "fetch", "commit", "rollback"})
          => h.key \in blobs
    /\ (h.pc \in {"publish", "wait_pub"} \/ h.published # "none") =>
          (h.report_id # 0 /\ h.id \in committed /\ h.key \in blobs)
    /\ \A row \in dbRows : row.file_name \in blobs
    /\ PublishInFlight => Grounded(pub.message)
    /\ \A i \in 1..Len(txBuf) : Grounded(txBuf[i])
    /\ \A i \in 1..Len(queue) : Grounded(queue[i])

\* C19 witness: the broker holds the events of two uploads, each with its
\* record committed and its blob stored.
C19_Witness ==
    /\ Len(queue) >= 2
    /\ Cardinality(dbRows) = 2
    /\ Cardinality(blobs) = 2
    /\ h.pc = "done"
    /\ h.code = 200

\* C20: every failed connection cycle and every recoverable publish failure
\* (each consumes a retry) leaves both globals cleared; a connection taken
\* into the global afterwards is a new one, with its channel opened on it;
\* and every publish attempt is made on a held connection with a channel of
\* that connection.
C20_FailureClearsBoth ==
    [][/\ pub'.retry_count > pub.retry_count =>
             (rabbitmq_connection' = 0 /\ rabbitmq_channel' = NoChannel)
       /\ (rabbitmq_connection' # rabbitmq_connection
              /\ rabbitmq_connection' # 0) =>
             /\ rabbitmq_connection = 0
             /\ rabbitmq_connection' > nextConn
             /\ rabbitmq_channel'.conn = rabbitmq_connection'
       /\ pub'.attempts > pub.attempts =>
             /\ rabbitmq_connection # 0
             /\ rabbitmq_channel # NoChannel
             /\ rabbitmq_channel.conn = rabbitmq_connection]_vars

\* C20 witness: a call that found a connection held has failed on it and is
\* about to publish on a connection established after that failure.
C20_Witness ==
    /\ pub.pc = "basic_publish"
    /\ pub.retry_count >= 1
    /\ pub.conn0 # 0
    /\ rabbitmq_connection > pub.conn0
    /\ rabbitmq_channel.conn = rabbitmq_connection

\* C21: every publish_to_rabbitmq call returns a boolean, whatever the
\* broker does: failed connection cycles and publish attempts draw on one
\* budget, so in one call their number never exceeds MAX_RETRIES; the
\* counters are zero when a call is entered, whatever the previous call
\* did; and a call in progress eventually returns.
C21_TerminatesWithinBudget ==
    /\ [](/\ pub.connFails + pub.attempts <= MAX_RETRIES
          /\ pub.retry_count <= MAX_RETRIES
          /\ pub.connFails <= pub.retry_count)
    /\ [](pub.pc = "validate" =>
             (pub.retry_count = 0 /\ pub.connFails = 0 /\ pub.attempts = 0))
    /\ [](pub.pc = "returned" => pub.result \in BOOLEAN)
    /\ (PublishInFlight ~> pub.pc = "returned")

\* C21 witness: the second call has returned after spending a whole budget
\* on failed connection cycles and publish attempts together.
C21_Witness ==
    /\ calls = 2
    /\ pub.pc = "returned"
    /\ pub.connFails >= 1
    /\ pub.attempts >= 1
    /\ pub.connFails + pub.attempts = MAX_RETRIES

\* The call in progress found a connection and a channel held and its
\* first publish attempt was committed.
ReadyAndSucceeded ==
    /\ pub.pc = "returned"
    /\ pub.result
    /\ pub.retry_count = 0
    /\ pub.conn0 # 0
    /\ pub.chan0 # NoChannel

\* C22: a call that starts with a connection and a channel held and whose
\* publish and commit succeed establishes no connection and opens no
\* channel: when it returns True the globals hold the same connection and
\* the same channel as when it was entered.
C22_ReadyStaysReady ==
    ReadyAndSucceeded =>
        /\ pub.connects = 0
        /\ pub.attempts = 1
        /\ rabbitmq_connection = pub.conn0
        /\ rabbitmq_channel = pub.chan0

\* C22 witness: the second call found the pair the first one had set up
\* and returned True on it.
C22_Witness ==
    /\ ReadyAndSucceeded
    /\ calls = 2
    /\ pub.connects = 0
    /\ rabbitmq_connection = pub.conn0
    /\ rabbitmq_channel = pub.chan0
    /\ Len(queue) >= 1

\* C23 as stated: no broker connection is open that the global no longer
\* holds: every connection the publisher stopped referencing was closed.
C23_NoOpenUnreferenced ==
    leaked = 0

\* Every failure of the call in progress came from the pair it found held
\* having been dropped by the broker before the call: during the call the
\* broker was reachable and accepted what was published.
BrokerHealthyDuringCall ==
    /\ pub.retry_count = pub.staleHits
    /\ pub.unroutable = 0

\* C24: whatever happened in earlier calls and between the calls, a call
\* with a valid message during which the broker is reachable and accepts
\* publishes returns, and returns True, having consumed at most one retry
\* (on a pair that had died before the call).
C24_RecoversWhenBrokerHealthy ==
    /\ [](  (pub.pc = "returned" /\ ValidMessage /\ BrokerHealthyDuringCall)
         => (/\ pub.result
             /\ pub.retry_count <= 1
             /\ pub.delivered = 1
             /\ queue[Len(queue)] = pub.message))
    /\ (PublishInFlight ~> pub.pc = "returned")

\* C24 witness: the broker dropped the connection between two calls, and
\* the second call returned True after one failed attempt on the dead pair.
C24_Witness ==
    /\ calls = 2
    /\ pub.pc = "returned"
    /\ ValidMessage
    /\ BrokerHealthyDuringCall
    /\ pub.staleHits = 1
    /\ pub.result
    /\ rabbitmq_connection > pub.conn0
====
